---------------------------- MODULE Spec2Model ----------------------------
(***************************************************************************)
(* Deisotoper::deisotopeAndSingleCharge (OpenMS) as a state machine.       *)
(*                                                                         *)
(* Units.  m/z values and masses are integers counting 0.001 Da, so that   *)
(* the double arithmetic of the routine is exact rational arithmetic on    *)
(* this grid: 100.000 is 100000, C13C12_MASSDIFF_U (1.0033548) is 1003,    *)
(* PROTON_MASS_U (1.0072765) is 1007.  An expected m/z                     *)
(* current_mz + i * C13C12_MASSDIFF_U / q is kept as the numerator         *)
(* q * current_mz + i * C13C12_MASSDIFF_U over the denominator q, and every *)
(* comparison against it is multiplied through by q.  Intensities are      *)
(* positive integers.  Peak indices are 1-based; -1 is "no peak" /         *)
(* "no feature" as in the source.                                          *)
(***************************************************************************)
EXTENDS Integers, Sequences, FiniteSets, TLC

(***************************************************************************)
(* Program constants                                                       *)
(***************************************************************************)
C13C12_MASSDIFF_U == 1003
PROTON_MASS == 1007
PROTON_MASS_U == 1007
preserve_low_mz_peaks_threshold == 154000
windowsize == 4000
RATIO_MAX == 10
RATIO_MIN_INV == 100
PPM_DIVISOR == 1000000

(***************************************************************************)
(* Bounds of the model                                                     *)
(***************************************************************************)
MaxPeaks == 3

\* m/z values a peak of an input spectrum may have: two clusters (one below and
\* one above the 154.0 threshold, more than one window apart), holding
\* charge-2 spaced (+0.5017) and charge-1 spaced (+1.0034) neighbours.
MzGrid == {100000, 100502, 200000, 200502, 201003}
Intensities == {2, 20, 2000}
\* (fragment_tolerance, fragment_unit_ppm): 0.01 Da, 2 Da; 50 ppm
AbsTolerances == {<<10, FALSE>>, <<2000, FALSE>>}
PpmTolerances == {<<50, TRUE>>}
\* (min_isopeaks, max_isopeaks)
ValidIsopeaks == {<<2, 2>>, <<2, 3>>, <<3, 3>>}
BadIsopeaks == {<<1, 2>>, <<3, 2>>, <<1, 1>>}
\* (min_charge, max_charge)
ChargeRanges == {<<1, 2>>}
OtherChargeRanges == {<<1, 1>>, <<2, 2>>, <<1, 3>>}
\* (use_decreasing_model, start_intensity_check)
DecreasingConfigs == {<<FALSE, 0>>, <<TRUE, 1>>, <<TRUE, 2>>}
\* precursor records of a spectrum, (m/z, charge): none, one, two
OnePrecursor == <<[mz |-> 300000, charge |-> 1]>>
PrecursorLists == {<< >>, OnePrecursor, OnePrecursor \o OnePrecursor}

(***************************************************************************)
(* Helpers                                                                 *)
(***************************************************************************)
Abs(x) == IF x < 0 THEN -x ELSE x

Last(s) == s[Len(s)]

Range(s) == {s[k] : k \in 1..Len(s)}

Contains(s, x) == \E k \in 1..Len(s) : s[k] = x

RECURSIVE SetToSortedSeq(_)
SetToSortedSeq(S) ==
  IF S = {} THEN << >>
  ELSE LET m == CHOOSE x \in S : \A y \in S : x <= y
       IN  <<m>> \o SetToSortedSeq(S \ {m})

RECURSIVE SumSeq(_)
SumSeq(s) == IF Len(s) = 0 THEN 0 ELSE s[1] + SumSeq(Tail(s))

\* A spectrum with peaks at the m/z values of S (sorted, strictly increasing)
\* and intensities f; idx is the peak's position in the input (kept to name
\* the peak after selection and sorting).
MkSpectrum(S, f) ==
  LET mzs == SetToSortedSeq(S)
  IN  [k \in 1..Len(mzs) |-> [mz |-> mzs[k], intensity |-> f[k], idx |-> k]]

InputSpectra ==
  UNION {{MkSpectrum(S, f) : f \in [1..Cardinality(S) -> Intensities]} :
           S \in {T \in SUBSET MzGrid : Cardinality(T) <= MaxPeaks}}

\* Strings are sequences of characters.
MaxStrLen == 3

Alphabet == {"a", "b", "c"}

Strings == UNION {[1..n -> Alphabet] : n \in 0..MaxStrLen}

\* (m/z, intensity) pairs given to generateMSMSSpectrumBins: m/z in 0.001 Da,
\* intensities of type int; delta_mz in 0.001 Da.
MaxPairs == 3

INT_MAX == 2147483647

\* half of the range of int: two of them do not fit
BigIntensity == (INT_MAX \div 2) + 1

BinMz == {100000, 100010, 100020, 100030, 100050}

BinIntensities == {-3, 0, 4, BigIntensity}

BinWidths == {0, 20}

PairValues == [mz : BinMz, intensity : BinIntensities]

\* operator< of std::pair<double,int>
PairLess(a, b) == a.mz < b.mz \/ (a.mz = b.mz /\ a.intensity < b.intensity)

\* The non-empty lists after sort(mz_int_pairs.begin(), mz_int_pairs.end())
SortedPairLists ==
  {s \in UNION {[1..n -> PairValues] : n \in 1..MaxPairs} :
     \A k \in 1..(Len(s) - 1) : ~PairLess(s[k + 1], s[k])}

\* Identification::SearchParameters values: the default-constructed one and
\* one that differs from it in every field; NaN stands for a not-a-number
\* tolerance (tolerances are not negative otherwise).
NaN == -1

FieldNames ==
  {"db", "db_version", "taxonomy", "charges", "mass_type", "fixed_modifications",
   "variable_modifications", "enzyme", "missed_cleavages", "peak_mass_tolerance",
   "precursor_tolerance"}

DefaultSearchParameters ==
  [db |-> "", db_version |-> "", taxonomy |-> "", charges |-> "",
   mass_type |-> "MONOISOTOPIC", fixed_modifications |-> << >>,
   variable_modifications |-> << >>, enzyme |-> "UNKNOWN_ENZYME",
   missed_cleavages |-> 0, peak_mass_tolerance |-> 0, precursor_tolerance |-> 0]

OtherSearchParameters ==
  [db |-> "SwissProt", db_version |-> "2", taxonomy |-> "human", charges |-> "+2",
   mass_type |-> "AVERAGE", fixed_modifications |-> <<"Carbamidomethyl">>,
   variable_modifications |-> <<"Oxidation">>, enzyme |-> "TRYPSIN",
   missed_cleavages |-> 2, peak_mass_tolerance |-> 3, precursor_tolerance |-> NaN]

\* a with the fields of D taken from b
Mixed(a, b, D) == [f \in FieldNames |-> IF f \in D THEN b[f] ELSE a[f]]

\* The characters of the lines given to tokenize.
LineChars == {"a", "Z", "7", "_", "@", "+", " "}

Lines == UNION {[1..n -> LineChars] : n \in 0..MaxStrLen}

isSorted(s) == \A k \in 1..(Len(s) - 1) : s[k].mz <= s[k + 1].mz

VARIABLES
  pc,                      \* position in the routine
  params,                  \* the arguments of the call
  in_spec,                 \* the spectrum as passed in (never changed)
  precursors,              \* spec.getPrecursors()
  spec,                    \* spec: the peak list (mutated in place)
  int_arrays,              \* spec.getIntegerDataArrays(): [name, data]
  mono_isotopic_peak,      \* charge accepted for a seed, 0 otherwise
  features,                \* feature id of a peak, -1 if none
  mono_iso_peak_intensity, \* accumulated intensity of a seed
  iso_peak_count,          \* run length recorded for a seed
  feature_number,          \* next feature id
  high_intensity_peaks,    \* "index" array of the WindowMower-filtered copy
  hi_i,                    \* loop index of the high-intensity seed pass
  current_peak,            \* loop index of the exhaustive pass
  select_idx,              \* indices which survive
  evals,                   \* history: every charge hypothesis evaluated
  groups,                  \* history: every accepted isotope group
  run,                     \* number of the call on this spectrum (1, or 2: a re-run)
  prev,                    \* history: what the previous call on this spectrum did
  call,                    \* a call of one of the helper functions: its arguments
  ret                      \* the value that call returned

vars == <<pc, params, in_spec, precursors, spec, int_arrays, mono_isotopic_peak,
          features, mono_iso_peak_intensity, iso_peak_count, feature_number,
          high_intensity_peaks, hi_i, current_peak, select_idx, evals, groups,
          run, prev, call, ret>>

\* The helper functions are not called by the deisotoper.
NoCall == [fn |-> "none"]

NoRet == [ok |-> TRUE, str |-> << >>]

NoPrev == [in_spec |-> << >>, groups |-> << >>]

work == <<mono_isotopic_peak, features, mono_iso_peak_intensity, iso_peak_count,
          feature_number, evals, groups>>

Params(t, c, n, d, a, k, m, u) ==
  [fragment_tolerance |-> t[1], fragment_unit_ppm |-> t[2],
   min_charge |-> c[1], max_charge |-> c[2],
   keep_only_deisotoped |-> k,
   min_isopeaks |-> n[1], max_isopeaks |-> n[2],
   make_single_charged |-> m,
   annotate_charge |-> a[1], annotate_iso_peak_count |-> a[2],
   use_decreasing_model |-> d[1], start_intensity_check |-> d[2],
   add_up_intensity |-> u]

\* The calls explored: every combination of the output flags and annotation
\* flags with an absolute tolerance, no precursor and no intensity model;
\* the intensity model, a ppm tolerance and the precursor lists with fewer
\* combinations of the flags; the invalid isotope-count configurations with
\* every combination of the annotation flags.
MainCalls ==
  {[params |-> Params(t, c, n, <<FALSE, 0>>, a, k, m, u), precursors |-> << >>] :
     t \in AbsTolerances, c \in ChargeRanges, n \in ValidIsopeaks,
     a \in BOOLEAN \X BOOLEAN, k \in BOOLEAN, m \in BOOLEAN, u \in BOOLEAN}

SideCalls ==
  {[params |-> Params(t, c, n, x[1], <<TRUE, TRUE>>, k, TRUE, TRUE),
    precursors |-> x[2]] :
     t \in PpmTolerances \cup {<<10, FALSE>>}, c \in ChargeRanges,
     n \in ValidIsopeaks, k \in BOOLEAN,
     x \in (DecreasingConfigs \X {<< >>}) \cup ({<<FALSE, 0>>} \X PrecursorLists)}

ChargeCalls ==
  {[params |-> Params(<<10, FALSE>>, c, n, <<FALSE, 0>>, <<TRUE, TRUE>>, k, TRUE, TRUE),
    precursors |-> << >>] :
     c \in OtherChargeRanges, n \in ValidIsopeaks, k \in BOOLEAN}

BadCalls ==
  {[params |-> Params(<<10, FALSE>>, c, n, <<FALSE, 0>>, a, FALSE, FALSE, FALSE),
    precursors |-> << >>] :
     c \in ChargeRanges, n \in BadIsopeaks, a \in BOOLEAN \X BOOLEAN}

CallSpace == MainCalls \cup SideCalls \cup ChargeCalls \cup BadCalls

\* The state when deisotopeAndSingleCharge is entered with one of the given
\* calls on one of the given spectra.
InitWith(calls, spectra) ==
  /\ pc = "start"
  /\ \E c \in calls : params = c.params /\ precursors = c.precursors
  /\ in_spec \in spectra
  /\ spec = in_spec
  /\ int_arrays = << >>
  /\ mono_isotopic_peak = << >>
  /\ features = << >>
  /\ mono_iso_peak_intensity = << >>
  /\ iso_peak_count = << >>
  /\ feature_number = 0
  /\ high_intensity_peaks = << >>
  /\ hi_i = 1
  /\ current_peak = 1
  /\ select_idx = << >>
  /\ evals = << >>
  /\ groups = << >>
  /\ run = 1
  /\ prev = NoPrev
  /\ call = NoCall
  /\ ret = NoRet

Init == InitWith(CallSpace, InputSpectra)


(***************************************************************************)
(* Collaborators whose code is outside the files read here                 *)
(***************************************************************************)
\* First index whose m/z is >= num/q, Len(s) + 1 if there is none (MZBegin).
LowerBound(s, num, q) ==
  IF \E k \in 1..Len(s) : q * s[k].mz >= num
  THEN CHOOSE k \in 1..Len(s) :
         /\ q * s[k].mz >= num
         /\ \A j \in 1..(k - 1) : q * s[j].mz < num
  ELSE Len(s) + 1

\* MSSpectrum::findNearest(mz, tolerance) for mz = num/q and tolq = the
\* integer part of q * tolerance: the index of the peak closest to mz if it
\* lies within [mz - tolerance, mz + tolerance], -1 otherwise.
findNearest(s, num, q, tolq) ==
  IF Len(s) = 0 THEN -1
  ELSE LET lb == LowerBound(s, num, q)
           near == IF lb = 1 THEN 1
                   ELSE IF lb = Len(s) + 1 THEN Len(s)
                   ELSE IF Abs(q * s[lb].mz - num) < Abs(q * s[lb - 1].mz - num)
                        THEN lb ELSE lb - 1
       IN  IF Abs(q * s[near].mz - num) <= tolq THEN near ELSE -1

\* WindowMower, movetype "jump": the windows of width windowsize, the first
\* starting at the first peak, each next one at the first peak past the
\* previous window.
RECURSIVE WindowsFrom(_, _, _, _)
WindowsFrom(s, i, window_start, cur) ==
  IF i > Len(s) THEN (IF cur = {} THEN << >> ELSE <<cur>>)
  ELSE IF s[i].mz - window_start < windowsize
       THEN WindowsFrom(s, i + 1, window_start, cur \cup {i})
       ELSE <<cur>> \o WindowsFrom(s, i + 1, s[i].mz, {i})

JumpWindows(s) == IF Len(s) = 0 THEN << >> ELSE WindowsFrom(s, 1, s[1].mz, {})

MostIntense(s, W) == {k \in W : \A j \in W : s[j].intensity <= s[k].intensity}

\* WindowMower with peakcount 1: one most intense peak of every window is
\* retained (which one, among equally intense peaks, is not determined).  The
\* result is the "index" array of the filtered copy, in m/z order.
WindowMowerResults(s) ==
  LET w == JumpWindows(s)
  IN  {h \in [1..Len(w) -> 1..Len(s)] : \A k \in 1..Len(w) : h[k] \in MostIntense(s, w[k])}

\* MSSpectrum::select: the peaks at the given indices, in the given order.
select(s, idx) == [k \in 1..Len(idx) |-> s[idx[k]]]

\* MSSpectrum::sortByPosition: the order of the peaks by m/z (stable), as the
\* sequence of positions of s.
RECURSIVE InsertByMz(_, _, _)
InsertByMz(s, ord, k) ==
  IF Len(ord) = 0 THEN <<k>>
  ELSE IF s[k].mz < s[ord[1]].mz THEN <<k>> \o ord
       ELSE <<ord[1]>> \o InsertByMz(s, Tail(ord), k)

RECURSIVE SortOrderFrom(_, _, _)
SortOrderFrom(s, ord, k) ==
  IF k > Len(s) THEN ord ELSE SortOrderFrom(s, InsertByMz(s, ord, k), k + 1)

sortByPositionOrder(s) == SortOrderFrom(s, << >>, 1)

(***************************************************************************)
(* deisotopeAndSingleCharge: argument check and set-up                     *)
(***************************************************************************)
InvalidIsopeaks_NoOrderCheck(min_isopeaks, max_isopeaks) ==
  min_isopeaks < 2 \/ max_isopeaks < 2

InvalidIsopeaks(min_isopeaks, max_isopeaks) ==
  min_isopeaks < 2 \/ max_isopeaks < 2 \/ min_isopeaks > max_isopeaks

ReserveArrays_ChargeOnly(arrs, annotate_charge, annotate_iso_peak_count) ==
  IF annotate_charge
  THEN Append(arrs, [name |-> "charge", data |-> << >>]) ELSE arrs

\* The integer data arrays after the reservation of the requested ones.
ReserveArrays(arrs, annotate_charge, annotate_iso_peak_count) ==
  LET a1 == IF annotate_charge
            THEN Append(arrs, [name |-> "charge", data |-> << >>]) ELSE arrs
  IN  IF annotate_iso_peak_count
      THEN Append(a1, [name |-> "iso_peak_count", data |-> << >>]) ELSE a1

charge_index == IF params.annotate_charge THEN 1 ELSE 0

iso_peak_count_index ==
  IF params.annotate_iso_peak_count
  THEN (IF params.annotate_charge THEN 2 ELSE 1) ELSE 0

has_precursor_data == Len(precursors) = 1

precursor_mass ==
  IF has_precursor_data
  THEN precursors[1].mz * precursors[1].charge - PROTON_MASS * precursors[1].charge
  ELSE 0

ToleranceTimes_Zero(q, current_mz) == 0

\* The integer part of q * tolerance_dalton, where tolerance_dalton is
\* ppmToMass(fragment_tolerance, current_mz) or fragment_tolerance.  Distances
\* on the grid are integers, so comparing with the integer part is exact.
ToleranceTimes(q, current_mz) ==
  IF params.fragment_unit_ppm
  THEN (q * params.fragment_tolerance * current_mz) \div PPM_DIVISOR
  ELSE q * params.fragment_tolerance

Start ==
  /\ pc = "start"
  /\ UNCHANGED <<run, prev, call, ret>>
  /\ IF InvalidIsopeaks(params.min_isopeaks, params.max_isopeaks)
     THEN /\ pc' = "error"
          /\ UNCHANGED <<int_arrays, high_intensity_peaks>>
          /\ UNCHANGED work
     ELSE /\ int_arrays' = ReserveArrays(int_arrays, params.annotate_charge,
                                         params.annotate_iso_peak_count)
          /\ IF Len(spec) = 0
             THEN /\ pc' = "done"
                  /\ UNCHANGED high_intensity_peaks
                  /\ UNCHANGED work
             ELSE /\ pc' = "pass1"
                  /\ mono_isotopic_peak' = [k \in 1..Len(spec) |-> 0]
                  /\ features' = [k \in 1..Len(spec) |-> -1]
                  /\ mono_iso_peak_intensity' = [k \in 1..Len(spec) |-> 0]
                  /\ iso_peak_count' = [k \in 1..Len(spec) |-> 1]
                  /\ feature_number' = 0
                  /\ high_intensity_peaks' \in WindowMowerResults(spec)
                  /\ UNCHANGED <<evals, groups>>
  /\ UNCHANGED <<params, in_spec, precursors, spec, hi_i, current_peak, select_idx>>

(***************************************************************************)
(* deisotopeAndSingleCharge: charge hypotheses                             *)
(***************************************************************************)
RatioTooLarge_Never(a, b) == FALSE

\* a / b > 10.0 in double arithmetic (b = 0: +inf for a > 0, NaN for a = 0)
RatioTooLarge(a, b) == IF b = 0 THEN a > 0 ELSE a > RATIO_MAX * b

\* a / b < 0.01 in double arithmetic
RatioTooSmall(a, b) == IF b = 0 THEN FALSE ELSE RATIO_MIN_INV * a < b

Pruned_Never(current_mz, q) == FALSE

\* do not bother testing charges q with a theoretical mass above the precursor's
Pruned(current_mz, q) ==
  /\ has_precursor_data
  /\ (current_mz * q - PROTON_MASS * q) - precursor_mass > ToleranceTimes(1, current_mz)

RECURSIVE ExtendRun_NoIntensityModel(_, _, _, _, _, _, _)
ExtendRun_NoIntensityModel(s, seed, q, pass, i, ext, ipc) ==
  IF ~(i < params.max_isopeaks)
  THEN [ext |-> ext, has_min_isopeaks |-> TRUE, ipc |-> ipc]
  ELSE LET p == findNearest(s, q * s[seed].mz + i * C13C12_MASSDIFF_U, q,
                            ToleranceTimes(q, s[seed].mz))
           stop == [ext |-> ext, has_min_isopeaks |-> (i >= params.min_isopeaks),
                    ipc |-> ipc]
       IN  IF p = -1 THEN stop
           ELSE IF i = 1 /\ RatioTooLarge(s[p].intensity, s[Last(ext)].intensity)
                THEN stop
           ELSE IF pass = 1 /\ i = 1
                   /\ RatioTooSmall(s[p].intensity, s[Last(ext)].intensity)
                THEN stop
           ELSE ExtendRun_NoIntensityModel(s, seed, q, pass, i + 1, Append(ext, p),
                          IF params.annotate_iso_peak_count THEN i + 1 ELSE ipc)

\* The extension loop "for (i = 1; i < max_isopeaks; ++i)" of one hypothesis,
\* from isotope index i on: ext is extensions, ipc is iso_peak_count of the
\* seed.  pass is 1 in the high-intensity seed pass and 2 in the exhaustive
\* pass, whose loop has no lower bound on the first ratio.
RECURSIVE ExtendRun(_, _, _, _, _, _, _)
ExtendRun(s, seed, q, pass, i, ext, ipc) ==
  IF ~(i < params.max_isopeaks)
  THEN [ext |-> ext, has_min_isopeaks |-> TRUE, ipc |-> ipc]
  ELSE LET p == findNearest(s, q * s[seed].mz + i * C13C12_MASSDIFF_U, q,
                            ToleranceTimes(q, s[seed].mz))
           stop == [ext |-> ext, has_min_isopeaks |-> (i >= params.min_isopeaks),
                    ipc |-> ipc]
       IN  IF p = -1 THEN stop
           ELSE IF /\ params.use_decreasing_model
                   /\ i >= params.start_intensity_check
                   /\ s[p].intensity > s[Last(ext)].intensity
                THEN stop
           ELSE IF i = 1 /\ RatioTooLarge(s[p].intensity, s[Last(ext)].intensity)
                THEN stop
           ELSE IF pass = 1 /\ i = 1
                   /\ RatioTooSmall(s[p].intensity, s[Last(ext)].intensity)
                THEN stop
           ELSE ExtendRun(s, seed, q, pass, i + 1, Append(ext, p),
                          IF params.annotate_iso_peak_count THEN i + 1 ELSE ipc)

\* features after the peaks of ext are given the feature id fn
ClaimFeatures(f, ext, fn) ==
  [k \in 1..Len(f) |-> IF k \in Range(ext) THEN fn ELSE f[k]]

\* The seed may be tried only while it has no feature id.
SeedOpen_Always(f, seed) == f[seed] >= -1

SeedOpen(f, seed) == f[seed] = -1

\* One iteration of the charge loop for the peak seed: st is the working state
\* (the vectors allocated at the start, the feature counter and the history).
Hypothesis(s, st, seed, q, pass) ==
  IF ~SeedOpen(st.features, seed) THEN st
  ELSE IF Pruned(s[seed].mz, q)
  THEN [st EXCEPT !.evals = Append(@, [peak |-> seed, q |-> q, pass |-> pass,
                                        result |-> "pruned"])]
  ELSE
    LET r == ExtendRun(s, seed, q, pass, 1, <<seed>>, st.iso_peak_count[seed])
        ipc == [st.iso_peak_count EXCEPT ![seed] = r.ipc]
    IN  IF r.has_min_isopeaks
        THEN [st EXCEPT
                !.iso_peak_count = ipc,
                !.mono_isotopic_peak = [@ EXCEPT ![seed] = q],
                !.features = ClaimFeatures(@, r.ext, st.feature_number),
                !.mono_iso_peak_intensity =
                   [@ EXCEPT ![seed] =
                      IF params.add_up_intensity
                      THEN @ + SumSeq([k \in 1..(Len(r.ext) - 1) |->
                                         s[r.ext[k + 1]].intensity])
                      ELSE @],
                !.feature_number = @ + 1,
                !.evals = Append(@, [peak |-> seed, q |-> q, pass |-> pass,
                                     result |-> "accepted"]),
                !.groups = Append(@, [id |-> st.feature_number, seed |-> seed,
                                      q |-> q, pass |-> pass, ext |-> r.ext])]
        ELSE [st EXCEPT
                !.iso_peak_count = ipc,
                !.evals = Append(@, [peak |-> seed, q |-> q, pass |-> pass,
                                     result |-> "rejected"])]

RECURSIVE ChargeLoopUp(_, _, _, _, _)
ChargeLoopUp(s, st, seed, q, pass) ==
  IF q > params.max_charge THEN st
  ELSE ChargeLoopUp(s, Hypothesis(s, st, seed, q, pass), seed, q + 1, pass)

ChargeLoop_LowToHigh(s, st, seed, q, pass) ==
  ChargeLoopUp(s, st, seed, params.min_charge, pass)

\* "for (int q = max_charge; q >= min_charge; --q)" from charge q on
RECURSIVE ChargeLoop(_, _, _, _, _)
ChargeLoop(s, st, seed, q, pass) ==
  IF q < params.min_charge THEN st
  ELSE ChargeLoop(s, Hypothesis(s, st, seed, q, pass), seed, q - 1, pass)

\* The accumulated intensity of the peak before its charge loop starts.
InitSeedIntensity_None(acc, s, seed) == acc

InitSeedIntensity(acc, s, seed) ==
  IF params.add_up_intensity
  THEN [acc EXCEPT ![seed] = s[seed].intensity] ELSE acc

\* One iteration of a seed loop: the body of the loop over the high-intensity
\* peaks (pass 1) or over all peaks (pass 2).
TrySeed(s, st, seed, pass) ==
  ChargeLoop(s,
             [st EXCEPT !.mono_iso_peak_intensity = InitSeedIntensity(@, s, seed)],
             seed, params.max_charge, pass)

WorkState ==
  [mono_isotopic_peak |-> mono_isotopic_peak, features |-> features,
   mono_iso_peak_intensity |-> mono_iso_peak_intensity,
   iso_peak_count |-> iso_peak_count, feature_number |-> feature_number,
   evals |-> evals, groups |-> groups]

SetWork(st) ==
  /\ mono_isotopic_peak' = st.mono_isotopic_peak
  /\ features' = st.features
  /\ mono_iso_peak_intensity' = st.mono_iso_peak_intensity
  /\ iso_peak_count' = st.iso_peak_count
  /\ feature_number' = st.feature_number
  /\ evals' = st.evals
  /\ groups' = st.groups

Pass1Seed_StopAfterFirst ==
  /\ pc = "pass1"
  /\ UNCHANGED <<run, prev, call, ret>>
  /\ hi_i <= Len(high_intensity_peaks)
  /\ SetWork(TrySeed(spec, WorkState, high_intensity_peaks[hi_i], 1))
  /\ hi_i' = hi_i + 1
  /\ pc' = "pass2"
  /\ UNCHANGED <<params, in_spec, precursors, spec, int_arrays,
                 high_intensity_peaks, current_peak, select_idx>>

\* use high intensity peaks as seeds
Pass1Seed ==
  /\ pc = "pass1"
  /\ UNCHANGED <<run, prev, call, ret>>
  /\ hi_i <= Len(high_intensity_peaks)
  /\ SetWork(TrySeed(spec, WorkState, high_intensity_peaks[hi_i], 1))
  /\ hi_i' = hi_i + 1
  /\ pc' = IF hi_i = Len(high_intensity_peaks) THEN "pass2" ELSE "pass1"
  /\ UNCHANGED <<params, in_spec, precursors, spec, int_arrays,
                 high_intensity_peaks, current_peak, select_idx>>

\* deisotope on all peaks
Pass2Peak ==
  /\ pc = "pass2"
  /\ UNCHANGED <<run, prev, call, ret>>
  /\ current_peak <= Len(spec)
  /\ SetWork(TrySeed(spec, WorkState, current_peak, 2))
  /\ current_peak' = current_peak + 1
  /\ pc' = IF current_peak = Len(spec) THEN "rewrite" ELSE "pass2"
  /\ UNCHANGED <<params, in_spec, precursors, spec, int_arrays,
                 high_intensity_peaks, hi_i, select_idx>>

(***************************************************************************)
(* deisotopeAndSingleCharge: apply changes                                 *)
(***************************************************************************)
KeptUnassigned_Never(f, i) == FALSE

\* "keep all unassigned peaks": the first push_back of the selection loop
KeptUnassigned(f, i) == ~params.keep_only_deisotoped /\ f[i] < 0

\* Whether the selection loop pushes index i.
MainSelected_KeepUnassigned(f, mono, i) == f[i] < 0 \/ mono[i] # 0

MainSelected(f, mono, i) == KeptUnassigned(f, i) \/ mono[i] # 0

RewritePeak_ProtonPerCharge(pk, f, mono, acc, i) ==
  LET z == mono[i]
      inten == IF params.add_up_intensity THEN acc[i] ELSE pk.intensity
      mz == IF ~KeptUnassigned(f, i) /\ z # 0 /\ params.make_single_charged
            THEN pk.mz * z - z * PROTON_MASS_U
            ELSE pk.mz
  IN  [pk EXCEPT !.mz = mz, !.intensity = inten]

RewritePeak_NoProton(pk, f, mono, acc, i) ==
  LET z == mono[i]
      inten == IF params.add_up_intensity THEN acc[i] ELSE pk.intensity
      mz == IF ~KeptUnassigned(f, i) /\ z # 0 /\ params.make_single_charged
            THEN pk.mz * z
            ELSE pk.mz
  IN  [pk EXCEPT !.mz = mz, !.intensity = inten]

\* Peak i after the selection loop has passed it.
RewritePeak(pk, f, mono, acc, i) ==
  LET z == mono[i]
      inten == IF params.add_up_intensity THEN acc[i] ELSE pk.intensity
      mz == IF ~KeptUnassigned(f, i) /\ z # 0 /\ params.make_single_charged
            THEN pk.mz * z - (z - 1) * PROTON_MASS_U
            ELSE pk.mz
  IN  [pk EXCEPT !.mz = mz, !.intensity = inten]

RECURSIVE FilterIdx(_, _, _, _)
FilterIdx(f, mono, i, n) ==
  IF i > n THEN << >>
  ELSE (IF MainSelected(f, mono, i) THEN <<i>> ELSE << >>) \o FilterIdx(f, mono, i + 1, n)

FillArrays_CountForCharge(arrs, mono, ipc) ==
  [k \in 1..Len(arrs) |->
     IF k = charge_index THEN [arrs[k] EXCEPT !.data = @ \o ipc]
     ELSE IF k = iso_peak_count_index THEN [arrs[k] EXCEPT !.data = @ \o ipc]
     ELSE arrs[k]]

\* The annotation arrays filled with one entry per peak.
FillArrays(arrs, mono, ipc) ==
  [k \in 1..Len(arrs) |->
     IF k = charge_index THEN [arrs[k] EXCEPT !.data = @ \o mono]
     ELSE IF k = iso_peak_count_index THEN [arrs[k] EXCEPT !.data = @ \o ipc]
     ELSE arrs[k]]

Rewrite ==
  /\ pc = "rewrite"
  /\ UNCHANGED <<run, prev, call, ret>>
  /\ int_arrays' = FillArrays(int_arrays, mono_isotopic_peak, iso_peak_count)
  /\ spec' = [i \in 1..Len(spec) |->
                RewritePeak(spec[i], features, mono_isotopic_peak,
                            mono_iso_peak_intensity, i)]
  /\ select_idx' = FilterIdx(features, mono_isotopic_peak, 1, Len(spec))
  /\ pc' = "preserve_high"
  /\ UNCHANGED <<params, in_spec, precursors, high_intensity_peaks, hi_i, current_peak>>
  /\ UNCHANGED work

\* add peak index if we want to keep that peak
AddHighIntensity_Skip(sel, hi, k) == sel

RECURSIVE AddHighIntensity(_, _, _)
AddHighIntensity(sel, hi, k) ==
  IF k > Len(hi) THEN sel
  ELSE AddHighIntensity(IF Contains(sel, hi[k]) THEN sel ELSE Append(sel, hi[k]),
                        hi, k + 1)

PreserveHigh ==
  /\ pc = "preserve_high"
  /\ UNCHANGED <<run, prev, call, ret>>
  /\ select_idx' = AddHighIntensity(select_idx, high_intensity_peaks, 1)
  /\ pc' = "preserve_low"
  /\ UNCHANGED <<params, in_spec, precursors, spec, int_arrays,
                 high_intensity_peaks, hi_i, current_peak>>
  /\ UNCHANGED work

RECURSIVE AddLowMz_NoFind(_, _, _)
AddLowMz_NoFind(s, sel, i) ==
  IF i > Len(s) THEN sel
  ELSE IF s[i].mz < preserve_low_mz_peaks_threshold
       THEN AddLowMz_NoFind(s, Append(sel, i), i + 1)
       ELSE sel

\* The scan over the peaks from index i on, which ends at the first peak whose
\* (current) m/z is not below the threshold.
RECURSIVE AddLowMz(_, _, _)
AddLowMz(s, sel, i) ==
  IF i > Len(s) THEN sel
  ELSE IF s[i].mz < preserve_low_mz_peaks_threshold
       THEN AddLowMz(s, IF Contains(sel, i) THEN sel ELSE Append(sel, i), i + 1)
       ELSE sel

PreserveLow ==
  /\ pc = "preserve_low"
  /\ UNCHANGED <<run, prev, call, ret>>
  /\ select_idx' = AddLowMz(spec, select_idx, 1)
  /\ pc' = "select"
  /\ UNCHANGED <<params, in_spec, precursors, spec, int_arrays,
                 high_intensity_peaks, hi_i, current_peak>>
  /\ UNCHANGED work

SelectSort_NoSort ==
  /\ pc = "select"
  /\ UNCHANGED <<run, prev, call, ret>>
  /\ spec' = select(spec, select_idx)
  /\ int_arrays' = [k \in 1..Len(int_arrays) |->
                      [int_arrays[k] EXCEPT !.data = select(@, select_idx)]]
  /\ pc' = "done"
  /\ UNCHANGED <<params, in_spec, precursors, high_intensity_peaks, hi_i,
                 current_peak, select_idx>>
  /\ UNCHANGED work

\* spec.select(select_idx); spec.sortByPosition(): peaks and data arrays alike
SelectSort ==
  /\ pc = "select"
  /\ UNCHANGED <<run, prev, call, ret>>
  /\ LET sel == select(spec, select_idx)
         ord == sortByPositionOrder(sel)
     IN  /\ spec' = select(sel, ord)
         /\ int_arrays' = [k \in 1..Len(int_arrays) |->
                             [int_arrays[k] EXCEPT
                                !.data = select(select(@, select_idx), ord)]]
  /\ pc' = "done"
  /\ UNCHANGED <<params, in_spec, precursors, high_intensity_peaks, hi_i,
                 current_peak, select_idx>>
  /\ UNCHANGED work

Next ==
  \/ Start
  \/ Pass1Seed
  \/ Pass2Peak
  \/ Rewrite
  \/ PreserveHigh
  \/ PreserveLow
  \/ SelectSort

Spec == Init /\ [][Next]_vars

(***************************************************************************)
(* Two fixed spectra                                                       *)
(***************************************************************************)
\* [(100.000,1000),(100.5014,500),(101.0027,250)]: a charge-2 isotope triplet
\* (m/z rounded to 0.001).
TripletSpectrum == MkSpectrum({100000, 100501, 101003}, <<1000, 500, 250>>)

\* charges 1..2, 2..3 isotopic peaks, 0.01 Da, make_single_charged
TripletCalls ==
  {[params |-> Params(<<10, FALSE>>, <<1, 2>>, <<2, 3>>, d, a, k, TRUE, u),
    precursors |-> << >>] :
     d \in DecreasingConfigs, a \in BOOLEAN \X BOOLEAN, k \in BOOLEAN, u \in BOOLEAN}

\* [(100.0,1000),(100.50,50),(101.0,900)]
PairSpectrum == MkSpectrum({100000, 100500, 101000}, <<1000, 50, 900>>)

\* charge 1 only, 2..3 isotopic peaks, 0.05 Da
PairCalls ==
  {[params |-> Params(<<50, FALSE>>, <<1, 1>>, <<2, 3>>, d, a, k, m, u),
    precursors |-> << >>] :
     d \in DecreasingConfigs, a \in BOOLEAN \X BOOLEAN, k \in BOOLEAN,
     m \in BOOLEAN, u \in BOOLEAN}

InitScenario ==
  \/ InitWith(TripletCalls, {TripletSpectrum})
  \/ InitWith(PairCalls, {PairSpectrum})

SpecScenario == InitScenario /\ [][Next]_vars

(***************************************************************************)
(* A second call with the same parameters on the result of the first       *)
(***************************************************************************)
\* The calls with both annotations off.
RerunCalls ==
  {c \in MainCalls :
     ~c.params.annotate_charge /\ ~c.params.annotate_iso_peak_count}

\* The returned spectrum is passed to deisotopeAndSingleCharge again: its
\* peaks are the input peaks of the new call, all locals are new.
Rerun ==
  /\ pc = "done"
  /\ run = 1
  /\ run' = 2
  /\ prev' = [in_spec |-> in_spec, groups |-> groups]
  /\ in_spec' = [k \in 1..Len(spec) |-> [spec[k] EXCEPT !.idx = k]]
  /\ spec' = in_spec'
  /\ mono_isotopic_peak' = << >>
  /\ features' = << >>
  /\ mono_iso_peak_intensity' = << >>
  /\ iso_peak_count' = << >>
  /\ feature_number' = 0
  /\ high_intensity_peaks' = << >>
  /\ hi_i' = 1
  /\ current_peak' = 1
  /\ select_idx' = << >>
  /\ evals' = << >>
  /\ groups' = << >>
  /\ pc' = "start"
  /\ UNCHANGED <<params, precursors, int_arrays, call, ret>>

NextRerun ==
  \/ Next
  \/ Rerun

SpecRerun == InitWith(RerunCalls, InputSpectra) /\ [][NextRerun]_vars

(***************************************************************************)
(* Properties                                                              *)
(***************************************************************************)
Peaks == 1..Len(in_spec)

Finished == pc = "done" /\ Len(in_spec) > 0

\* The input peak i is a peak of the (final) peak list.
Present(i) == \E k \in 1..Len(spec) : spec[k].idx = i

HighIntensitySet == Range(high_intensity_peaks)

LowMz(i) == in_spec[i].mz < 154000

Claimed(i) == features[i] # -1

\* C1: a call with min_isopeaks < 2, max_isopeaks < 2 or min_isopeaks >
\* max_isopeaks never gets past the argument check: it ends in the error, and
\* the peak list and the integer data arrays stay as they were passed in.
C1_InvalidArgumentLeavesSpectrum ==
  (params.min_isopeaks < 2 \/ params.max_isopeaks < 2
     \/ params.min_isopeaks > params.max_isopeaks)
  => /\ pc \in {"start", "error"}
     /\ spec = in_spec
     /\ int_arrays = << >>
     /\ features = << >> /\ select_idx = << >>

C1_Witness ==
  /\ pc = "error"
  /\ params.min_isopeaks > params.max_isopeaks /\ params.min_isopeaks >= 2
  /\ params.annotate_charge /\ params.annotate_iso_peak_count
  /\ Len(in_spec) > 0

\* C2: a peak's feature id changes at most once, from none (-1) to one group
\* id: once claimed, no later seed attempt claims the peak into another group.
C2_FeatureIdSetOnce ==
  [][\A i \in DOMAIN features : features[i] # -1 => features'[i] = features[i]]_vars

\* C3: every input peak with m/z below 154.0 is a peak of the output.
C3_LowMzPeaksKept ==
  Finished => \A i \in Peaks : LowMz(i) => Present(i)

\* The sum of the input intensities of the peaks of the set S.
RECURSIVE SumIntensity(_)
SumIntensity(S) ==
  IF S = {} THEN 0
  ELSE LET i == CHOOSE x \in S : TRUE
       IN  in_spec[i].intensity + SumIntensity(S \ {i})

\* C4: with add_up_intensity, the output intensity of every accepted seed (of
\* either pass) is the sum of the input intensities of the peaks claimed into
\* its group.
C4_SeedIntensityIsGroupSum ==
  (Finished /\ params.add_up_intensity)
  => \A g \in Range(groups) :
       \A k \in 1..Len(spec) :
         spec[k].idx = g.seed => spec[k].intensity = SumIntensity(Range(g.ext))

\* C5 as stated: with keep_only_deisotoped, every peak not assigned to any
\* accepted group is absent from the output.
C5_UnassignedDropped ==
  (Finished /\ params.keep_only_deisotoped)
  => \A i \in Peaks : ~Claimed(i) => ~Present(i)

\* C5 amended: with keep_only_deisotoped, every peak not assigned to any
\* accepted group is absent from the output unless it is one of the
\* high-intensity seed peaks or its m/z is below 154.0.
C5_UnassignedDroppedUnlessPreserved ==
  (Finished /\ params.keep_only_deisotoped)
  => \A i \in Peaks :
       (~Claimed(i) /\ i \notin HighIntensitySet /\ ~LowMz(i)) => ~Present(i)

C5_Witness ==
  /\ Finished /\ params.keep_only_deisotoped
  /\ \E i \in Peaks : ~Claimed(i) /\ i \notin HighIntensitySet /\ ~LowMz(i)
                      /\ ~Present(i)
  /\ \E j \in Peaks : Claimed(j)

\* C6: with keep_only_deisotoped = false, every peak never claimed into a group
\* is in the output with its input m/z and its input intensity.
C6_UnclaimedKeptUnchanged ==
  (Finished /\ ~params.keep_only_deisotoped)
  => \A i \in Peaks :
       ~Claimed(i) => \E k \in 1..Len(spec) :
                        /\ spec[k].idx = i
                        /\ spec[k].mz = in_spec[i].mz
                        /\ spec[k].intensity = in_spec[i].intensity

C6_Witness ==
  /\ Finished /\ ~params.keep_only_deisotoped
  /\ params.make_single_charged /\ params.add_up_intensity
  /\ \E i \in Peaks : ~Claimed(i) /\ Present(i) /\ i \notin HighIntensitySet
                      /\ ~LowMz(i)
  /\ \E j \in Peaks : mono_isotopic_peak[j] = 2

\* C7: for every accepted group, the number of distinct peaks claimed into it
\* is the run length recorded for its seed, and the run length lies in
\* [min_isopeaks, max_isopeaks].
C7_RunLengthIsGroupSize ==
  \A g \in Range(groups) :
    /\ Cardinality(Range(g.ext)) = Len(g.ext)
    /\ params.annotate_iso_peak_count
         => iso_peak_count[g.seed] = Cardinality(Range(g.ext))
    /\ Len(g.ext) >= params.min_isopeaks
    /\ Len(g.ext) <= params.max_isopeaks

\* C8: in each seed attempt (the charge loop of a peak in one pass) the
\* hypotheses evaluated are the charges from max_charge downwards, in this
\* order; no hypothesis is evaluated for a peak after an accepted one, in the
\* same pass or a later one; and the charge recorded for a peak is the charge
\* of its accepted hypothesis, 0 if it has none (so it never changes once set).
C8_ChargesHighToLowFirstWins ==
  /\ \A a \in 1..Len(evals) :
       LET before == {b \in 1..(a - 1) : evals[b].peak = evals[a].peak}
           same == {b \in before : evals[b].pass = evals[a].pass}
       IN  /\ {evals[b].q : b \in same} = (evals[a].q + 1)..params.max_charge
           /\ \A b \in before : evals[b].result # "accepted"
           /\ evals[a].q >= params.min_charge
  /\ \A i \in DOMAIN mono_isotopic_peak :
       LET acc == {a \in 1..Len(evals) :
                     evals[a].peak = i /\ evals[a].result = "accepted"}
       IN  IF acc = {} THEN mono_isotopic_peak[i] = 0
           ELSE \A a \in acc : mono_isotopic_peak[i] = evals[a].q

C8_Witness ==
  /\ Finished
  /\ params.min_charge = 1
  /\ \E a \in 1..Len(evals) :
       /\ evals[a].result = "accepted" /\ evals[a].q = 2 /\ evals[a].pass = 1
       /\ mono_isotopic_peak[evals[a].peak] = 2
  /\ \E a \in 1..Len(evals) :
       /\ evals[a].result = "accepted" /\ evals[a].q = 1 /\ evals[a].pass = 2

\* C9: the peaks of the output are exactly the peaks never claimed (when
\* keep_only_deisotoped is false), the accepted seeds, the high-intensity seed
\* peaks and the peaks with m/z below 154.0.
C9_OutputIsExactly ==
  Finished
  => \A i \in Peaks :
       Present(i) <=> \/ (~Claimed(i) /\ ~params.keep_only_deisotoped)
                      \/ mono_isotopic_peak[i] > 0
                      \/ i \in HighIntensitySet
                      \/ LowMz(i)

\* C10: every peak retained by the jumping-window preselection is in the output.
C10_HighIntensityKept ==
  Finished => \A i \in HighIntensitySet : Present(i)

C10_Witness ==
  /\ Finished /\ params.keep_only_deisotoped
  /\ \E i \in HighIntensitySet :
       /\ mono_isotopic_peak[i] = 0 /\ Claimed(i) /\ ~LowMz(i) /\ Present(i)

(***************************************************************************)
(* config/tools/common_functions.php                                       *)
(***************************************************************************)
\* A returned string, and the boolean false.
StringValue(s) == [ok |-> TRUE, str |-> s]

PhpFalse == [ok |-> FALSE, str |-> << >>]

\* PHP's substr($string, $start) for $start >= 0: the part of the string from
\* offset $start (0-based) to its end.  With $start = strlen it is "" or false
\* and with $start > strlen it is false or "", depending on the PHP version.
substr(string, start) ==
  IF start < Len(string)
  THEN {StringValue(SubSeq(string, start + 1, Len(string)))}
  ELSE {StringValue(<< >>), PhpFalse}

\* function prefix($string,$length) { return substr($string,$length); }
prefix(string, length) == substr(string, length)

\* The deisotoper is not running.
DeisotoperIdle ==
  /\ params = Params(<<10, FALSE>>, <<1, 1>>, <<2, 2>>, <<FALSE, 0>>,
                     <<FALSE, FALSE>>, FALSE, FALSE, FALSE)
  /\ precursors = << >>
  /\ in_spec = << >>
  /\ spec = << >>
  /\ int_arrays = << >>
  /\ mono_isotopic_peak = << >>
  /\ features = << >>
  /\ mono_iso_peak_intensity = << >>
  /\ iso_peak_count = << >>
  /\ feature_number = 0
  /\ high_intensity_peaks = << >>
  /\ hi_i = 1
  /\ current_peak = 1
  /\ select_idx = << >>
  /\ evals = << >>
  /\ groups = << >>
  /\ run = 1
  /\ prev = NoPrev

InitPhp ==
  /\ pc = "call"
  /\ \E s \in Strings, n \in 0..MaxStrLen :
       call = [fn |-> "prefix", string |-> s, length |-> n]
  /\ ret = NoRet
  /\ DeisotoperIdle

CallPrefix ==
  /\ pc = "call"
  /\ call.fn = "prefix"
  /\ ret' \in prefix(call.string, call.length)
  /\ pc' = "returned"
  /\ UNCHANGED <<params, in_spec, precursors, spec, int_arrays,
                 high_intensity_peaks, hi_i, current_peak, select_idx, run, prev, call>>
  /\ UNCHANGED work

NextPhp == CallPrefix

SpecPhp == InitPhp /\ [][NextPhp]_vars

\* ord($char) for the characters used
ord(char) ==
  CASE char = "a" -> 97
    [] char = "Z" -> 90
    [] char = "7" -> 55
    [] char = "_" -> 95
    [] char = "@" -> 64
    [] char = "+" -> 43
    [] char = " " -> 32

isAlpha(char) ==
  LET c == ord(char)
  IN  (c >= 64 /\ c <= 90) \/ (c >= 97 /\ c <= 122)

isSpace(char) == char = " " \/ char = "\n" \/ char = "\t"

\* ('0' <= $char) && ($char <= '9'): one-character strings compare by code
isDigit(char) == 48 <= ord(char) /\ ord(char) <= 57

isAlnum(char) == isAlpha(char) \/ isDigit(char)

isIdentifierChar(char) == isAlnum(char) \/ char = "_"

\* PHP's substr($string, $start, $length) for 0 <= $start, $start + $length <= strlen
substrOfLength(string, start, length) == SubSeq(string, start + 1, start + length)

\* An array returned by a function.
ArrayValue(a) == [ok |-> TRUE, arr |-> a]

\* The loop of tokenize from offset i (0-based) on: st holds $result, $start
\* and $state.  The value is the final $result: nothing follows the loop.
RECURSIVE TokenizeFrom(_, _, _)
TokenizeFrom(line, i, st) ==
  IF i = Len(line) THEN st.result
  ELSE
    LET char == line[i + 1]
    IN  IF st.state = 0
        THEN IF isIdentifierChar(char)
             THEN TokenizeFrom(line, i + 1, [st EXCEPT !.start = i, !.state = 1])
             ELSE IF ~isSpace(char)
             THEN TokenizeFrom(line, i + 1, [st EXCEPT !.result = Append(@, <<char>>)])
             ELSE TokenizeFrom(line, i + 1, st)
        ELSE IF ~isIdentifierChar(char)
             THEN LET tok == substrOfLength(line, st.start, i - st.start)
                      r1 == Append(st.result, tok)
                      r2 == IF ~isSpace(char) THEN Append(r1, <<char>>) ELSE r1
                  IN  TokenizeFrom(line, i + 1, [st EXCEPT !.state = 0, !.result = r2])
             ELSE TokenizeFrom(line, i + 1, st)

tokenize(line) == TokenizeFrom(line, 0, [result |-> << >>, start |-> 0, state |-> 0])

InitTokenize ==
  /\ pc = "call"
  /\ \E s \in Lines : call = [fn |-> "tokenize", string |-> s]
  /\ ret = NoRet
  /\ DeisotoperIdle

CallTokenize ==
  /\ pc = "call"
  /\ call.fn = "tokenize"
  /\ ret' = ArrayValue(tokenize(call.string))
  /\ pc' = "returned"
  /\ UNCHANGED <<params, in_spec, precursors, spec, int_arrays,
                 high_intensity_peaks, hi_i, current_peak, select_idx, run, prev, call>>
  /\ UNCHANGED work

NextTokenize == CallTokenize

SpecTokenize == InitTokenize /\ [][NextTokenize]_vars

(***************************************************************************)
(* topp/GNPSExport.cpp: generateMSMSSpectrumBins                           *)
(***************************************************************************)
\* The values "a + b" can leave in an int: the sum if it is representable;
\* otherwise the behaviour is undefined, and the two's-complement wrap, 0 and
\* INT_MAX stand for what a build may produce.
AddIntOutcomes(a, b) ==
  IF b >= 0 /\ a > INT_MAX - b
  THEN {(a - INT_MAX - 1) + (b - INT_MAX - 1), 0, INT_MAX}
  ELSE IF b < 0 /\ a < (-INT_MAX - 1) - b
  THEN {(a + INT_MAX + 1) + (b + INT_MAX + 1), 0, INT_MAX}
  ELSE {a + b}

\* ms2_block[sum_mz / count] = value: the key is the quotient, kept as a
\* fraction; an entry with an equal key is replaced.
AssignBlock(block, sum_mz, count, value) ==
  {e \in block : e.num * count # sum_mz * e.den}
    \cup {[num |-> sum_mz, den |-> count, val |-> value]}

\* One iteration of the loop over the pairs: the states it can end in.
BinStep(st, mz_int, delta_mz) ==
  LET flush == Abs(mz_int.mz - st.last_mz) > delta_mz /\ st.count > 0
      st1 == IF flush
             THEN [last_mz |-> mz_int.mz, sum_mz |-> 0, sum_intensity |-> 0,
                   count |-> 0,
                   block |-> IF st.sum_intensity > 0
                             THEN AssignBlock(st.block, st.sum_mz, st.count,
                                              st.sum_intensity)
                             ELSE st.block]
             ELSE st
  IN  {[st1 EXCEPT !.sum_mz = @ + mz_int.mz, !.sum_intensity = v, !.count = @ + 1] :
         v \in AddIntOutcomes(st1.sum_intensity, mz_int.intensity)}

RECURSIVE BinLoop(_, _, _, _)
BinLoop(pairs, delta_mz, k, S) ==
  IF k > Len(pairs) THEN S
  ELSE BinLoop(pairs, delta_mz, k + 1,
               UNION {BinStep(st, pairs[k], delta_mz) : st \in S})

\* The contents ms2_block can have when the function returns.
generateMSMSSpectrumBins(sorted_mz_int_pairs, delta_mz, ms2_block) ==
  LET st0 == [last_mz |-> sorted_mz_int_pairs[1].mz, sum_mz |-> 0,
              sum_intensity |-> 0, count |-> 0, block |-> ms2_block]
  IN  {IF st.count > 0 /\ st.sum_intensity > 0
       THEN AssignBlock(st.block, st.sum_mz, st.count, st.sum_intensity)
       ELSE st.block :
         st \in BinLoop(sorted_mz_int_pairs, delta_mz, 1, {st0})}

MapValue(m) == [ok |-> TRUE, block |-> m]

InitBins ==
  /\ pc = "call"
  /\ \E s \in SortedPairLists, d \in BinWidths :
       call = [fn |-> "generateMSMSSpectrumBins", pairs |-> s, delta_mz |-> d]
  /\ ret = NoRet
  /\ DeisotoperIdle

CallBins ==
  /\ pc = "call"
  /\ call.fn = "generateMSMSSpectrumBins"
  /\ \E m \in generateMSMSSpectrumBins(call.pairs, call.delta_mz, {}) :
       ret' = MapValue(m)
  /\ pc' = "returned"
  /\ UNCHANGED <<params, in_spec, precursors, spec, int_arrays,
                 high_intensity_peaks, hi_i, current_peak, select_idx, run, prev, call>>
  /\ UNCHANGED work

NextBins == CallBins

SpecBins == InitBins /\ [][NextBins]_vars

(***************************************************************************)
(* Identification::SearchParameters                                        *)
(***************************************************************************)
\* operator== of DoubleReal
DoubleEquals(a, b) == a # NaN /\ b # NaN /\ a = b

\* bool operator == (const SearchParameters& rhs) const: only db and
\* db_version are compared with rhs, the other fields with themselves.
SearchParametersEquals(this, rhs) ==
  /\ this.db = rhs.db
  /\ this.db_version = rhs.db_version
  /\ this.taxonomy = this.taxonomy
  /\ this.charges = this.charges
  /\ this.mass_type = this.mass_type
  /\ this.fixed_modifications = this.fixed_modifications
  /\ this.variable_modifications = this.variable_modifications
  /\ this.enzyme = this.enzyme
  /\ this.missed_cleavages = this.missed_cleavages
  /\ DoubleEquals(this.peak_mass_tolerance, this.peak_mass_tolerance)
  /\ DoubleEquals(this.precursor_tolerance, this.precursor_tolerance)

\* bool operator != (const SearchParameters& rhs) const
SearchParametersNotEquals(this, rhs) == ~SearchParametersEquals(this, rhs)

BoolValue(b) == [ok |-> TRUE, bool |-> b]

InitSearchParameters ==
  /\ pc = "call"
  /\ \E a \in {DefaultSearchParameters, OtherSearchParameters},
        D \in SUBSET FieldNames, op \in {"operator==", "operator!="} :
       call = [fn |-> op, this |-> a,
               rhs |-> Mixed(a, IF a = DefaultSearchParameters
                                THEN OtherSearchParameters
                                ELSE DefaultSearchParameters, D)]
  /\ ret = NoRet
  /\ DeisotoperIdle

CallEquals ==
  /\ pc = "call"
  /\ call.fn = "operator=="
  /\ ret' = BoolValue(SearchParametersEquals(call.this, call.rhs))
  /\ pc' = "returned"
  /\ UNCHANGED <<params, in_spec, precursors, spec, int_arrays,
                 high_intensity_peaks, hi_i, current_peak, select_idx, run, prev, call>>
  /\ UNCHANGED work

CallNotEquals ==
  /\ pc = "call"
  /\ call.fn = "operator!="
  /\ ret' = BoolValue(SearchParametersNotEquals(call.this, call.rhs))
  /\ pc' = "returned"
  /\ UNCHANGED <<params, in_spec, precursors, spec, int_arrays,
                 high_intensity_peaks, hi_i, current_peak, select_idx, run, prev, call>>
  /\ UNCHANGED work

NextSearchParameters ==
  \/ CallEquals
  \/ CallNotEquals

SpecSearchParameters == InitSearchParameters /\ [][NextSearchParameters]_vars

(***************************************************************************)
(* Properties (continued)                                                  *)
(***************************************************************************)
\* The output positions and whether the output order differs from the input's.
OutPositions == 1..Len(spec)

Reordered == \E k \in 1..(Len(spec) - 1) : spec[k].idx > spec[k + 1].idx

\* C11: the m/z of an output peak is the input m/z of that peak, except when
\* make_single_charged is set and the peak was accepted as a seed with a charge
\* z > 0: then it is input_mz * z - (z - 1) * proton_mass.
C11_MzRewrittenOnlyForSeeds ==
  Finished
  => \A k \in OutPositions :
       LET i == spec[k].idx
           z == mono_isotopic_peak[i]
       IN  spec[k].mz = IF params.make_single_charged /\ z > 0
                        THEN in_spec[i].mz * z - (z - 1) * PROTON_MASS_U
                        ELSE in_spec[i].mz

C11_Witness ==
  /\ Finished /\ params.make_single_charged
  /\ \E k \in OutPositions :
       /\ mono_isotopic_peak[spec[k].idx] = 2
       /\ spec[k].mz # in_spec[spec[k].idx].mz
  /\ \E k \in OutPositions : mono_isotopic_peak[spec[k].idx] = 0

\* The data of the integer array called name, as a set (one element if the
\* array exists once).
ArrayData(name) ==
  {int_arrays[k].data : k \in {j \in 1..Len(int_arrays) : int_arrays[j].name = name}}

\* The charge of the accepted group peak i is the seed of, 0 if it has none.
AssignedCharge(i) ==
  IF \E g \in Range(groups) : g.seed = i
  THEN (CHOOSE g \in Range(groups) : g.seed = i).q ELSE 0

\* C12: a requested annotation array has one entry per output peak, and the
\* entry at an output position is the charge (0 if the peak was never accepted
\* as a seed), resp. the run length, of the input peak now at that position,
\* after the selection and the re-sort too; the run length of an accepted seed
\* is the length of its group's run.
C12_ArraysInLockStep ==
  Finished
  => /\ params.annotate_charge
          => /\ Cardinality(ArrayData("charge")) = 1
             /\ \A d \in ArrayData("charge") :
                  /\ Len(d) = Len(spec)
                  /\ \A k \in OutPositions : d[k] = AssignedCharge(spec[k].idx)
     /\ params.annotate_iso_peak_count
          => /\ Cardinality(ArrayData("iso_peak_count")) = 1
             /\ \A d \in ArrayData("iso_peak_count") :
                  /\ Len(d) = Len(spec)
                  /\ \A k \in OutPositions :
                       /\ d[k] = iso_peak_count[spec[k].idx]
                       /\ \A g \in Range(groups) :
                            g.seed = spec[k].idx => d[k] = Len(g.ext)

C12_Witness ==
  /\ Finished /\ params.annotate_charge /\ params.annotate_iso_peak_count
  /\ params.make_single_charged /\ Reordered
  /\ Len(spec) < Len(in_spec)
  /\ \E d \in ArrayData("charge") : \E k \in OutPositions : k > 1 /\ d[k] = 2
  /\ \E d \in ArrayData("iso_peak_count") : \E k \in OutPositions : d[k] = 2

\* C13: the output peak list is sorted by non-decreasing m/z, also when the
\* rewrite has moved a seed past later peaks.
C13_OutputSorted ==
  pc = "done" => \A k \in 1..(Len(spec) - 1) : spec[k].mz <= spec[k + 1].mz

C13_Witness ==
  /\ Finished /\ params.make_single_charged /\ Reordered
  /\ \E k \in OutPositions :
       /\ mono_isotopic_peak[spec[k].idx] > 0
       /\ \E j \in OutPositions : spec[j].idx > spec[k].idx /\ j < k

\* C14: with keep_only_deisotoped set and a valid configuration, no peak index
\* is selected twice by the selection loop and the two overrides together, so
\* the output has at most as many peaks as the input.
C14_NoIndexSelectedTwice ==
  (params.keep_only_deisotoped
     /\ ~(params.min_isopeaks < 2 \/ params.max_isopeaks < 2
            \/ params.min_isopeaks > params.max_isopeaks))
  => /\ \A a, b \in 1..Len(select_idx) : select_idx[a] = select_idx[b] => a = b
     /\ \A a \in 1..Len(select_idx) : select_idx[a] \in Peaks
     /\ pc = "done" => /\ Len(spec) <= Len(in_spec)
                       /\ \A a, b \in OutPositions : spec[a].idx = spec[b].idx => a = b

C14_Witness ==
  /\ Finished /\ params.keep_only_deisotoped
  /\ Len(spec) < Len(in_spec)
  /\ \E i \in HighIntensitySet : mono_isotopic_peak[i] > 0 /\ Present(i) /\ spec[1].idx = i
                                   /\ spec[1].mz < preserve_low_mz_peaks_threshold

\* C15: on an empty spectrum with a valid isotope-count configuration the call
\* is not an error: it returns with an empty "charge" array iff annotate_charge,
\* an empty "iso_peak_count" array iff annotate_iso_peak_count, and no other
\* change.
C15_EmptySpectrumReturns ==
  (Len(in_spec) = 0
     /\ ~(params.min_isopeaks < 2 \/ params.max_isopeaks < 2
            \/ params.min_isopeaks > params.max_isopeaks))
  => /\ pc \in {"start", "done"}
     /\ spec = << >>
     /\ pc = "done"
          => /\ int_arrays =
                  (IF params.annotate_charge
                   THEN <<[name |-> "charge", data |-> << >>]>> ELSE << >>)
                  \o (IF params.annotate_iso_peak_count
                      THEN <<[name |-> "iso_peak_count", data |-> << >>]>> ELSE << >>)
             /\ select_idx = << >> /\ evals = << >> /\ groups = << >>
             /\ high_intensity_peaks = << >>

C15_Witness ==
  /\ pc = "done" /\ Len(in_spec) = 0
  /\ ~params.annotate_charge /\ params.annotate_iso_peak_count
  /\ Len(int_arrays) = 1

\* The second call has returned.
RerunFinished == run = 2 /\ pc = "done"

\* The call left its input as it was and gave no peak a charge.
NoOp ==
  /\ spec = in_spec
  /\ \A i \in DOMAIN mono_isotopic_peak : mono_isotopic_peak[i] = 0

TripletFinished == pc = "done" /\ in_spec = TripletSpectrum

C18_RewrittenTo199_99 ==
  TripletFinished
  => \E k \in OutPositions :
       spec[k].idx = 1 /\ 199985 <= spec[k].mz /\ spec[k].mz < 199995

\* C18 (amended): on the triplet the kept monoisotopic peak has its m/z
\* rewritten to 100.000 * 2 - 1 * 1.007 = 198.993, i.e. approximately 198.99.
C18_RewrittenTo198_99 ==
  TripletFinished
  => \E k \in OutPositions :
       /\ spec[k].idx = 1
       /\ spec[k].mz = 198993
       /\ 198985 <= spec[k].mz /\ spec[k].mz < 198995

C18_Witness ==
  /\ TripletFinished /\ params.make_single_charged
  /\ mono_isotopic_peak[1] = 2
  /\ \E k \in OutPositions : spec[k].idx = 1 /\ spec[k].mz # in_spec[1].mz

PairFinished ==
  pc = "done" /\ in_spec = PairSpectrum /\ ~params.keep_only_deisotoped

AllKept == \A i \in Peaks : Present(i)

\* C19 (as stated): on the pair spectrum with charge 1 only, 2..3 isotopic
\* peaks and 0.05 Da, no group is formed, and with keep_only_deisotoped = false
\* all three peaks are kept with charge 0.
C19_PairNoGroup ==
  PairFinished
  => /\ groups = << >>
     /\ AllKept
     /\ mono_isotopic_peak = <<0, 0, 0>>

\* C19 (amended): on the pair spectrum the seed at 100.0 finds the peak at
\* 101.0 as its first isotopic peak at charge 1, the group {100.0, 101.0} is
\* accepted with charge 1, and with keep_only_deisotoped = false all three
\* peaks are kept with their m/z: 100.0 with charge 1, the others with charge 0.
C19_PairOneGroupAtCharge1 ==
  PairFinished
  => /\ Len(groups) = 1
     /\ groups[1].seed = 1 /\ groups[1].q = 1 /\ groups[1].ext = <<1, 3>>
     /\ mono_isotopic_peak = <<1, 0, 0>>
     /\ AllKept
     /\ Len(spec) = 3
     /\ \A k \in OutPositions : spec[k].idx = k /\ spec[k].mz = in_spec[k].mz

C19_Witness ==
  /\ PairFinished /\ params.make_single_charged
  /\ Len(groups) = 1 /\ Len(spec) = 3
  /\ features[3] = 0 /\ features[2] = -1

\* C20: prefix($string, $length) returns the first $length characters of
\* $string, for every string and every 0 <= $length <= strlen($string).
C20_PrefixIsFirstChars ==
  (pc = "returned" /\ call.fn = "prefix" /\ call.length <= Len(call.string))
  => ret = StringValue(SubSeq(call.string, 1, call.length))

\* The number of hypotheses accepted among the first n evaluated.
RECURSIVE AcceptedBefore(_)
AcceptedBefore(n) ==
  IF n = 0 THEN 0
  ELSE AcceptedBefore(n - 1) + (IF evals[n].result = "accepted" THEN 1 ELSE 0)

\* C21: every attempt of the high-intensity seed pass is completed before the
\* first attempt of the exhaustive pass; the exhaustive pass evaluates no
\* hypothesis for a peak that a group formed earlier (in either pass) has
\* claimed; so the groups of the high-intensity seeds are formed first.
C21_PassPrecedence ==
  /\ pc \in {"pass2", "rewrite", "preserve_high", "preserve_low", "select"}
       => hi_i = Len(high_intensity_peaks) + 1
  /\ pc = "pass1" => \A a \in 1..Len(evals) : evals[a].pass = 1
  /\ \A a, b \in 1..Len(evals) : a < b => evals[a].pass <= evals[b].pass
  /\ \A g, h \in 1..Len(groups) : g < h => groups[g].pass <= groups[h].pass
  /\ \A a \in 1..Len(evals) :
       /\ evals[a].pass = 1 => evals[a].peak \in HighIntensitySet
       /\ \A g \in 1..AcceptedBefore(a - 1) :
            evals[a].peak \notin Range(groups[g].ext)

C21_Witness ==
  /\ Finished
  /\ \E g \in 1..Len(groups) :
       /\ groups[g].pass = 1
       /\ \E a \in 1..Len(evals) :
            evals[a].pass = 2 /\ evals[a].peak < groups[g].seed
       /\ \E i \in Range(groups[g].ext) :
            i # groups[g].seed /\ \A a \in 1..Len(evals) : evals[a].peak # i
  /\ \E h \in 1..Len(groups) : groups[h].pass = 2

\* C22: with exactly one precursor record no accepted group has a seed and a
\* charge with mz * q - q * proton_mass above the precursor's
\* mz * charge - charge * proton_mass plus the tolerance; with no or several
\* precursor records nothing is pruned; and after a pruned charge the next
\* lower charge (if any) is evaluated for the same seed.
C22_PrecursorPruning ==
  /\ Len(precursors) = 1
       => \A g \in Range(groups) :
            LET mz == in_spec[g.seed].mz
                tol == IF params.fragment_unit_ppm
                       THEN (params.fragment_tolerance * mz) \div 1000000
                       ELSE params.fragment_tolerance
            IN  mz * g.q - g.q * 1007
                  <= precursors[1].mz * precursors[1].charge
                       - precursors[1].charge * 1007 + tol
  /\ Len(precursors) # 1
       => \A a \in 1..Len(evals) : evals[a].result # "pruned"
  /\ \A a \in 1..Len(evals) :
       (evals[a].result = "pruned" /\ evals[a].q > params.min_charge)
       => /\ a < Len(evals)
          /\ evals[a + 1].peak = evals[a].peak
          /\ evals[a + 1].pass = evals[a].pass
          /\ evals[a + 1].q = evals[a].q - 1

C22_Witness ==
  /\ Finished /\ Len(precursors) = 1
  /\ \E a \in 1..(Len(evals) - 1) :
       /\ evals[a].result = "pruned" /\ evals[a].q = 2
       /\ evals[a + 1].result = "accepted" /\ evals[a + 1].q = 1

\* C23: with use_decreasing_model, in every accepted group the input
\* intensities do not increase along the run from position
\* max(1, start_intensity_check) on; when the candidate after the run's last
\* peak breaks this, the run was accepted with a length >= min_isopeaks.
C23_DecreasingRun ==
  params.use_decreasing_model
  => \A g \in Range(groups) :
       /\ \A i \in 1..(Len(g.ext) - 1) :
            i >= params.start_intensity_check
            => in_spec[g.ext[i + 1]].intensity <= in_spec[g.ext[i]].intensity
       /\ Len(g.ext) >= params.min_isopeaks

C23_Witness ==
  /\ Finished /\ params.use_decreasing_model /\ params.start_intensity_check = 2
  /\ \E g \in Range(groups) :
       /\ Len(g.ext) = 3
       /\ in_spec[g.ext[2]].intensity > in_spec[g.ext[1]].intensity
       /\ in_spec[g.ext[3]].intensity < in_spec[g.ext[2]].intensity
  /\ \E a \in 1..Len(evals) : evals[a].result = "rejected"

\* C24: in every accepted group, of either pass, the input intensity of the
\* first isotopic peak is at most 10 times the input intensity of the seed.
C24_FirstRatioAtMost10 ==
  \A g \in Range(groups) :
    /\ Len(g.ext) >= 2
    /\ in_spec[g.ext[2]].intensity <= 10 * in_spec[g.ext[1]].intensity

C24_Witness ==
  /\ Finished
  /\ \E g \in Range(groups) :
       in_spec[g.ext[2]].intensity = 10 * in_spec[g.ext[1]].intensity
  /\ \E a \in 1..Len(evals) :
       LET mz == in_spec[evals[a].peak].mz
           p == findNearest(in_spec, evals[a].q * mz + C13C12_MASSDIFF_U,
                            evals[a].q, ToleranceTimes(evals[a].q, mz))
       IN  /\ evals[a].result = "rejected"
           /\ p # -1
           /\ in_spec[p].intensity > 10 * in_spec[evals[a].peak].intensity

\* C25: after both passes, no accepted group whose seed is a high-intensity
\* seed has a first isotopic peak with less than 0.01 times the seed's input
\* intensity.
C25_NoiseGuardEffective ==
  Finished
  => \A g \in Range(groups) :
       g.seed \in HighIntensitySet
       => ~(100 * in_spec[g.ext[2]].intensity < in_spec[g.ext[1]].intensity)

\* C26: in the "iso_peak_count" annotation every output peak that was not
\* accepted as a seed (charge 0) has the initial value 1.
C26_RunLengthOnlyOnSuccess ==
  (Finished /\ params.annotate_iso_peak_count)
  => \A d \in ArrayData("iso_peak_count") :
       \A k \in 1..Len(d) : mono_isotopic_peak[spec[k].idx] = 0 => d[k] = 1

\* C27: with add_up_intensity, every input peak is counted at most once over
\* all accumulated intensities: as the seed of one accepted group or as one
\* isotopic peak of one accepted group.
C27_IntensityCountedOnce ==
  params.add_up_intensity
  => \A i \in Peaks :
       Cardinality({x \in (1..Len(groups)) \X (1..MaxPeaks) :
                      /\ x[2] <= Len(groups[x[1]].ext)
                      /\ groups[x[1]].ext[x[2]] = i}) <= 1

\* Letters, digits and '_', by their codes.
IdentifierCharacter(c) ==
  \/ (65 <= ord(c) /\ ord(c) <= 90) \/ (97 <= ord(c) /\ ord(c) <= 122)
  \/ (48 <= ord(c) /\ ord(c) <= 57)
  \/ c = "_"

Whitespace(c) == c \in {" ", "\t", "\n"}

\* The tokens of a line from position i on: the maximal runs of identifier
\* characters and the other non-whitespace characters, in order.
RECURSIVE TokensFrom(_, _)
TokensFrom(line, i) ==
  IF i > Len(line) THEN << >>
  ELSE IF IdentifierCharacter(line[i])
  THEN LET j == CHOOSE k \in i..Len(line) :
                  /\ \A m \in i..k : IdentifierCharacter(line[m])
                  /\ (k = Len(line) \/ ~IdentifierCharacter(line[k + 1]))
       IN  <<SubSeq(line, i, j)>> \o TokensFrom(line, j + 1)
  ELSE IF Whitespace(line[i]) THEN TokensFrom(line, i + 1)
  ELSE <<SubSeq(line, i, i)>> \o TokensFrom(line, i + 1)

RECURSIVE IsSubsequence(_, _)
IsSubsequence(a, b) ==
  IF a = << >> THEN TRUE
  ELSE IF b = << >> THEN FALSE
  ELSE IF a[1] = b[1] THEN IsSubsequence(Tail(a), Tail(b))
  ELSE IsSubsequence(a, Tail(b))

\* C28: tokenize($line) loses no token: the maximal runs of identifier
\* characters (letters, digits, '_') and the characters that are neither
\* identifier characters nor whitespace appear, in order, as tokens of the
\* result, a run that ends the line included.
C28_TokenizeLosesNoToken ==
  (pc = "returned" /\ call.fn = "tokenize")
  => IsSubsequence(TokensFrom(call.string, 1), ret.arr)

\* The bins <<lo, hi>> that the cuts C (a cut after each position of C) make
\* of n consecutive pairs.
BinsOf(n, C) ==
  {<<lo, CHOOSE hi \in (C \cup {n}) :
            hi >= lo /\ \A c \in C \cup {n} : c >= lo => c >= hi>> :
     lo \in {1} \cup {c + 1 : c \in C}}

RECURSIVE SumMz(_, _, _)
SumMz(pairs, lo, hi) ==
  IF lo > hi THEN 0 ELSE pairs[lo].mz + SumMz(pairs, lo + 1, hi)

\* The sum of the intensities of a bin, as a number of BigIntensity plus a rest.
BigCount(pairs, b) ==
  Cardinality({k \in b[1]..b[2] : pairs[k].intensity = BigIntensity})

RECURSIVE SmallSum(_, _, _)
SmallSum(pairs, lo, hi) ==
  IF lo > hi THEN 0
  ELSE (IF pairs[lo].intensity = BigIntensity THEN 0 ELSE pairs[lo].intensity)
       + SmallSum(pairs, lo + 1, hi)

PositiveSum(pairs, b) ==
  BigCount(pairs, b) > 0 \/ SmallSum(pairs, b[1], b[2]) > 0

\* v is the sum of the intensities of the bin (2 * BigIntensity = INT_MAX + 1).
IsSumOf(v, pairs, b) ==
  LET big == BigCount(pairs, b)
      small == SmallSum(pairs, b[1], b[2])
  IN  CASE big = 0 -> v = small
        [] big = 1 -> v = BigIntensity + small
        [] big = 2 -> small < 0 /\ v = INT_MAX + (small + 1)
        [] OTHER -> FALSE

\* The block is what the claim says for the bins B.
BlockOfBins(block, pairs, delta_mz, B) ==
  /\ \A b \in B : \A k \in b[1]..b[2] : Abs(pairs[k].mz - pairs[b[1]].mz) <= delta_mz
  /\ \A b \in B :
       PositiveSum(pairs, b)
       => \E e \in block :
            /\ e.num * (b[2] - b[1] + 1) = e.den * SumMz(pairs, b[1], b[2])
            /\ IsSumOf(e.val, pairs, b)
  /\ Cardinality(block) = Cardinality({b \in B : PositiveSum(pairs, b)})

\* C29: the pairs are put into bins of consecutive pairs, each pair in one
\* bin, all pairs of a bin within delta_mz of the bin's first pair, and
\* ms2_block has exactly one entry per bin with a positive intensity sum,
\* with the mean m/z of the bin as key and the intensity sum as value.
C29_BinsMeanAndSum ==
  (pc = "returned" /\ call.fn = "generateMSMSSpectrumBins")
  => \E C \in SUBSET (1..(Len(call.pairs) - 1)) :
       BlockOfBins(ret.block, call.pairs, call.delta_mz, BinsOf(Len(call.pairs), C))

\* The fields in which two SearchParameters differ.
DifferingFields(a, b) ==
  {f \in FieldNames :
     IF f \in {"peak_mass_tolerance", "precursor_tolerance"}
     THEN ~(a[f] # NaN /\ b[f] # NaN /\ a[f] = b[f])
     ELSE a[f] # b[f]}

\* C30: operator== returns true only if the eleven fields of the operands are
\* pairwise equal, and operator!= returns true whenever one of them differs.
C30_EqualsComparesAllFields ==
  pc = "returned"
  => /\ (call.fn = "operator==" /\ ret.bool)
          => DifferingFields(call.this, call.rhs) = {}
     /\ (call.fn = "operator!=" /\ DifferingFields(call.this, call.rhs) # {})
          => ret.bool

=============================================================================
